---- MODULE Spec2Model ----
(***************************************************************************)
(* A model of infergo's post-processing and tokenization core:             *)
(*   pkg/ml          Softmax, IoU                                          *)
(*   pkg/postprocess ProcessDetections, NonMaxSuppression                  *)
(*   pkg/tokenizer   WordPiece, BERTTokenizer.Encode, Tokenizer.Encode     *)
(*                                                                         *)
(* Every operation is a synchronous call.  A behaviour is one call: the    *)
(* state "idle" is followed by the state that holds the call's arguments   *)
(* (in), what the call returned and what it left in the caller's memory    *)
(* (out).                                                                  *)
(*                                                                         *)
(* Numbers.  A float32 value is modelled as a fraction [num, den] that is  *)
(* not reduced; den = 0 is the result of a floating-point division by zero *)
(* (0/0 = NaN when num = 0, +Inf when num > 0).  The inputs are small      *)
(* integers and fractions of small integers, on which the float32          *)
(* comparisons of the code agree with the comparisons of the fractions.    *)
(* Box coordinates are integers (pixels, or fixed-point pixels).           *)
(*                                                                         *)
(* Text.  A Go string is modelled as a sequence of one-character strings   *)
(* (ASCII only, so bytes and characters coincide).                         *)
(***************************************************************************)
EXTENDS Integers, Sequences, FiniteSets, TLC

VARIABLES pc, in, out

vars == <<pc, in, out>>

(***************************************************************************)
(* Bounds of the model.                                                    *)
(***************************************************************************)
\* longest detection list handed to NonMaxSuppression
MaxDets == 3
\* most candidate boxes in the buffers handed to ProcessDetections
MaxBoxes == 2
\* longest score vector handed to Softmax, TopK and ProcessClassification
MaxScores == 3
\* largest k handed to TopK
MaxTopK == 4

(***************************************************************************)
(* float32 values as fractions.                                            *)
(***************************************************************************)
Frac(n, d) == [num |-> n, den |-> d]

Max(a, b) == IF a > b THEN a ELSE b

Min(a, b) == IF a < b THEN a ELSE b

\* x > y of two float32 values, y finite (y.den > 0).  NaN compares false
\* with everything, +Inf is above every finite value.
FloatGT(x, y) ==
    IF x.den = 0 THEN x.num > 0
    ELSE IF x.den > 0 THEN x.num * y.den > y.num * x.den
    ELSE x.num * y.den < y.num * x.den

\* x < y of two float32 values, y finite (y.den > 0).
FloatLT(x, y) ==
    IF x.den = 0 THEN FALSE
    ELSE IF x.den > 0 THEN x.num * y.den < y.num * x.den
    ELSE x.num * y.den > y.num * x.den

(***************************************************************************)
(* pkg/ml: IoU.  Boxes are <<x1, y1, x2, y2>>.                             *)
(***************************************************************************)
IoU(a, b) ==
    LET intersectX1 == Max(a[1], b[1])
        intersectY1 == Max(a[2], b[2])
        intersectX2 == Min(a[3], b[3])
        intersectY2 == Min(a[4], b[4])
        intersectArea == Max(0, intersectX2 - intersectX1) * Max(0, intersectY2 - intersectY1)
        areaA == (a[3] - a[1]) * (a[4] - a[2])
        areaB == (b[3] - b[1]) * (b[4] - b[2])
    IN  Frac(intersectArea, areaA + areaB - intersectArea)

(***************************************************************************)
(* pkg/postprocess: NonMaxSuppression.                                     *)
(* A Detection is [Label, Class, Confidence, Box].                         *)
(***************************************************************************)
PermutationsOf(n) == {p \in [1..n -> 1..n] : \A i, j \in 1..n : i # j => p[i] # p[j]}

\* fault: the slice is left in its input order
SortOutcomesWrong(detections) == {detections}

\* sort.Slice(detections, less) with less(i, j) = Confidence[i] > Confidence[j].
\* sort.Slice is not stable: every arrangement of the slice in which no
\* element is followed by one that must come before it is a possible outcome.
SortOutcomes(detections) ==
    LET n == Len(detections)
    IN  { [i \in 1..n |-> detections[p[i]]] : p \in
            { q \in PermutationsOf(n) :
                \A i, j \in 1..n :
                    i < j => ~FloatGT(detections[q[j]].Confidence, detections[q[i]].Confidence) } }

\* fault: the inner loop without the test of the class
SuppressNoClass(detections, iouThreshold, i, kept) ==
    [j \in 1..Len(detections) |->
        IF j > i /\ ~kept[j]
           /\ FloatGT(IoU(detections[i].Box, detections[j].Box), iouThreshold)
        THEN TRUE ELSE kept[j]]

\* fault: the inner loop with the comparison of the IoU turned round
SuppressBelow(detections, iouThreshold, i, kept) ==
    [j \in 1..Len(detections) |->
        IF j > i /\ ~kept[j] /\ detections[i].Class = detections[j].Class
           /\ FloatLT(IoU(detections[i].Box, detections[j].Box), iouThreshold)
        THEN TRUE ELSE kept[j]]

\* The inner loop (j := i+1 ..): marks every later detection of the same
\* class whose IoU with detection i is above the threshold.
Suppress(detections, iouThreshold, i, kept) ==
    [j \in 1..Len(detections) |->
        IF j > i /\ ~kept[j] /\ detections[i].Class = detections[j].Class
           /\ FloatGT(IoU(detections[i].Box, detections[j].Box), iouThreshold)
        THEN TRUE ELSE kept[j]]

\* fault: a suppressed detection goes on to suppress the ones after it
RECURSIVE SweepChained(_, _, _, _, _)
SweepChained(detections, iouThreshold, i, kept, result) ==
    IF i > Len(detections) THEN result
    ELSE IF kept[i]
    THEN SweepChained(detections, iouThreshold, i + 1,
                      Suppress(detections, iouThreshold, i, kept), result)
    ELSE SweepChained(detections, iouThreshold, i + 1,
                      Suppress(detections, iouThreshold, i, [kept EXCEPT ![i] = TRUE]),
                      Append(result, detections[i]))

\* The outer loop from index i on, with the kept marks and the result so far.
RECURSIVE Sweep(_, _, _, _, _)
Sweep(detections, iouThreshold, i, kept, result) ==
    IF i > Len(detections) THEN result
    ELSE IF kept[i] THEN Sweep(detections, iouThreshold, i + 1, kept, result)
    ELSE Sweep(detections, iouThreshold, i + 1,
               Suppress(detections, iouThreshold, i, [kept EXCEPT ![i] = TRUE]),
               Append(result, detections[i]))

\* The outcomes of NonMaxSuppression: the caller's slice as the call leaves
\* it (sorted in place) and the returned list.
NonMaxSuppression(detections, iouThreshold) ==
    IF Len(detections) = 0
    THEN {[detections |-> detections, result |-> detections]}
    ELSE { [detections |-> s,
            result |-> Sweep(s, iouThreshold, 1, [j \in 1..Len(s) |-> FALSE], <<>>)] :
           s \in SortOutcomes(detections) }

(***************************************************************************)
(* pkg/ml: Softmax.  A logit is written as the integer k for which its     *)
(* value is k * ln 2, so that e^logit = 2^k and the probabilities are      *)
(* fractions of integers: 2^(k_i - max) / sum_j 2^(k_j - max), here with   *)
(* numerator and denominator both multiplied by 2^(max - min).             *)
(***************************************************************************)
RECURSIVE Pow2(_)
Pow2(k) == IF k <= 0 THEN 1 ELSE 2 * Pow2(k - 1)

RECURSIVE SumSeq(_)
SumSeq(s) == IF Len(s) = 0 THEN 0 ELSE Head(s) + SumSeq(Tail(s))

\* fault: the exponentials are returned without the division by their sum
SoftmaxUnnormalised(logits) ==
    IF Len(logits) = 0 THEN <<>>
    ELSE LET lo == CHOOSE m \in {logits[i] : i \in 1..Len(logits)} :
                       \A i \in 1..Len(logits) : m <= logits[i]
             hi == CHOOSE m \in {logits[i] : i \in 1..Len(logits)} :
                       \A i \in 1..Len(logits) : m >= logits[i]
             exps == [i \in 1..Len(logits) |-> Pow2(logits[i] - lo)]
         IN  [i \in 1..Len(logits) |-> Frac(exps[i], Pow2(hi - lo))]

Softmax(logits) ==
    IF Len(logits) = 0 THEN <<>>
    ELSE LET lo == CHOOSE m \in {logits[i] : i \in 1..Len(logits)} :
                       \A i \in 1..Len(logits) : m <= logits[i]
             exps == [i \in 1..Len(logits) |-> Pow2(logits[i] - lo)]
             sumExp == SumSeq(exps)
         IN  [i \in 1..Len(logits) |-> Frac(exps[i], sumExp)]

(***************************************************************************)
(* pkg/postprocess: ProcessDetections.                                     *)
(* opts is [Labels, MaxDetections, ConfThreshold, IoUThreshold]; Labels is *)
(* a function from the labelled class indices to their labels.  The box    *)
(* buffer holds (cx, cy, w, h) in sixteenths with w and h even, so that    *)
(* w/2 and h/2 are whole sixteenths and the pixel coordinates of a Box     *)
(* come out in sixteenths of a pixel.                                      *)
(***************************************************************************)
\* fault: the running maximum also moves on an equal probability
RECURSIVE ArgMaxLast(_, _, _, _)
ArgMaxLast(probs, c, maxProb, maxClass) ==
    IF c > Len(probs) THEN [maxProb |-> maxProb, maxClass |-> maxClass]
    ELSE IF ~FloatLT(probs[c], maxProb)
         THEN ArgMaxLast(probs, c + 1, probs[c], c - 1)
         ELSE ArgMaxLast(probs, c + 1, maxProb, maxClass)

\* The loop over the classes of one candidate (c := 0 ..): the running
\* maximum starts at (0, class 0) and moves on a strictly larger probability.
RECURSIVE ArgMax(_, _, _, _)
ArgMax(probs, c, maxProb, maxClass) ==
    IF c > Len(probs) THEN [maxProb |-> maxProb, maxClass |-> maxClass]
    ELSE IF FloatGT(probs[c], maxProb)
         THEN ArgMax(probs, c + 1, probs[c], c - 1)
         ELSE ArgMax(probs, c + 1, maxProb, maxClass)

\* The loop over the candidate boxes from box i (0-based) on.
RECURSIVE Decode(_, _, _, _, _, _, _)
Decode(logits, boxes, imageSize, opts, numBoxes, numClasses, i) ==
    IF i >= numBoxes THEN <<>>
    ELSE LET boxLogits == SubSeq(logits, i * numClasses + 1, (i + 1) * numClasses)
             probs == Softmax(boxLogits)
             best == ArgMax(probs, 1, Frac(0, 1), 0)
             box == SubSeq(boxes, i * 4 + 1, (i + 1) * 4)
             rest == Decode(logits, boxes, imageSize, opts, numBoxes, numClasses, i + 1)
         IN  IF FloatLT(best.maxProb, opts.ConfThreshold) THEN rest
             ELSE IF best.maxClass \notin DOMAIN opts.Labels THEN rest
             ELSE << [Label |-> opts.Labels[best.maxClass],
                      Class |-> best.maxClass,
                      Confidence |-> best.maxProb,
                      Box |-> << (box[1] - box[3] \div 2) * imageSize[1],
                                 (box[2] - box[4] \div 2) * imageSize[2],
                                 (box[1] + box[3] \div 2) * imageSize[1],
                                 (box[2] + box[4] \div 2) * imageSize[2] >>] >> \o rest

\* The outcomes of ProcessDetections: a run-time panic (integer division by
\* zero when the box buffer holds no box), or the list NonMaxSuppression
\* returns with a nil error; decoded is the list the loop over the candidates
\* hands to NonMaxSuppression.
ProcessDetections(logits, boxes, imageSize, opts) ==
    LET numBoxes == Len(boxes) \div 4
    IN  IF numBoxes = 0 THEN {[status |-> "panic"]}
        ELSE LET numClasses == Len(logits) \div numBoxes
                 detections == Decode(logits, boxes, imageSize, opts, numBoxes, numClasses, 0)
             IN  { [status |-> "ok", decoded |-> detections, result |-> o.result] :
                   o \in NonMaxSuppression(detections, opts.IoUThreshold) }

(***************************************************************************)
(* pkg/ml: TopK.  Indices are 0-based, as in the code; values[i + 1] is    *)
(* the value of index i.                                                   *)
(***************************************************************************)
\* fault: the indices are taken in the order of the slice, without sorting
TopKUnsorted(values, k) ==
    LET n == Len(values)
        kk == IF k > n THEN n ELSE k
    IN  IF kk < 0 THEN {[status |-> "panic"]}
        ELSE {[status |-> "ok", indices |-> [i \in 1..kk |-> i - 1]]}

\* The outcomes of TopK: a run-time panic in make([]int, k) when k is
\* negative, or the first k indices of the slice sorted by sort.Slice with
\* less(i, j) = value[i] > value[j] (not stable: every arrangement in which
\* no element is followed by one that must come before it is possible).
TopK(values, k) ==
    LET n == Len(values)
        kk == IF k > n THEN n ELSE k
    IN  IF kk < 0 THEN {[status |-> "panic"]}
        ELSE { [status |-> "ok", indices |-> [i \in 1..kk |-> q[i] - 1]] : q \in
                { p \in PermutationsOf(n) :
                    \A i, j \in 1..n :
                        i < j => ~FloatGT(values[p[j]], values[p[i]]) } }

(***************************************************************************)
(* pkg/postprocess: ProcessClassification.                                 *)
(* opts is [Labels, TopK, MinScore, Softmax].  A Classification is         *)
(* [Label, Class, Confidence].                                             *)
(***************************************************************************)
\* the float32 value of the logit k * ln 2, with ln 2 taken as 0.693
LogitValue(k) == Frac(693 * k, 1000)

\* fault: the class is reported 1-based
RECURSIVE ClassifyOneBased(_, _, _, _)
ClassifyOneBased(probabilities, indices, opts, i) ==
    IF i > Len(indices) THEN <<>>
    ELSE LET idx == indices[i]
             prob == probabilities[idx + 1]
             rest == ClassifyOneBased(probabilities, indices, opts, i + 1)
         IN  IF FloatLT(prob, opts.MinScore) THEN rest
             ELSE IF idx \notin DOMAIN opts.Labels THEN rest
             ELSE << [Label |-> opts.Labels[idx], Class |-> idx + 1,
                      Confidence |-> prob] >> \o rest

\* fault: the loop without the test of MinScore
RECURSIVE ClassifyAnyScore(_, _, _, _)
ClassifyAnyScore(probabilities, indices, opts, i) ==
    IF i > Len(indices) THEN <<>>
    ELSE LET idx == indices[i]
             prob == probabilities[idx + 1]
             rest == ClassifyAnyScore(probabilities, indices, opts, i + 1)
         IN  IF idx \notin DOMAIN opts.Labels THEN rest
             ELSE << [Label |-> opts.Labels[idx], Class |-> idx,
                      Confidence |-> prob] >> \o rest

\* The loop over the indices TopK returned, from the i-th on.
RECURSIVE Classify(_, _, _, _)
Classify(probabilities, indices, opts, i) ==
    IF i > Len(indices) THEN <<>>
    ELSE LET idx == indices[i]
             prob == probabilities[idx + 1]
             rest == Classify(probabilities, indices, opts, i + 1)
         IN  IF FloatLT(prob, opts.MinScore) THEN rest
             ELSE IF idx \notin DOMAIN opts.Labels THEN rest
             ELSE << [Label |-> opts.Labels[idx], Class |-> idx,
                      Confidence |-> prob] >> \o rest

\* The outcomes of ProcessClassification: the panic of TopK, or the slice
\* made with make([]Classification, 0, len(indices)), which is never nil,
\* with a nil error.
ProcessClassification(logits, opts) ==
    LET probabilities == IF opts.Softmax THEN Softmax(logits)
                         ELSE [i \in 1..Len(logits) |-> LogitValue(logits[i])]
    IN  { IF o.status = "panic" THEN [status |-> "panic"]
          ELSE [status |-> "ok",
                classifications |-> Classify(probabilities, o.indices, opts, 1),
                isNil |-> FALSE,
                err |-> "nil"] :
          o \in TopK(probabilities, opts.TopK) }

(***************************************************************************)
(* Inputs of the detection calls.                                          *)
(***************************************************************************)
SeqsUpTo(S, n) == UNION {[1..k -> S] : k \in 0..n}

RECURSIVE Flatten(_)
Flatten(ss) == IF Len(ss) = 0 THEN <<>> ELSE Head(ss) \o Flatten(Tail(ss))

\* scenario C's two boxes, a third that overlaps the second above 0.45 and
\* the first below it, and a box of zero area
Boxes == {<<0, 0, 10, 10>>, <<1, 1, 11, 11>>, <<3, 3, 13, 13>>, <<5, 5, 5, 5>>}

Confidences == {Frac(8, 10), Frac(9, 10)}

\* 0 and the YOLO example's 0.45
Thresholds == {Frac(0, 1), Frac(45, 100)}

AllLabels == (0 :> "cat") @@ (1 :> "dog")

Detections == [Label : {"obj"}, Class : {0, 1}, Confidence : Confidences, Box : Boxes]

\* score blocks of two classes: a tie, class 0 ahead, class 1 ahead
ScoreBlocks == {<<0, 0>>, <<1, 0>>, <<0, 3>>}

\* (cx, cy, w, h) in sixteenths: two overlapping boxes and a distant one
CenterBoxes == {<<4, 4, 8, 8>>, <<5, 4, 8, 8>>, <<12, 12, 4, 4>>}

Candidates == [scores : ScoreBlocks, box : CenterBoxes]

DetectionOptionsSet ==
    [Labels : {AllLabels, (0 :> "cat")},
     MaxDetections : {1, 100},
     ConfThreshold : {Frac(0, 1), Frac(6, 10)},
     IoUThreshold : Thresholds]

\* what the buffers hold beyond the candidates: nothing, one more logit, or
\* one more float in the box buffer
Trailing == {<<0, 0>>, <<1, 0>>, <<0, 1>>}

\* logits, in units of ln 2
Logits == {0, 1, 3}

ClassificationOptionsSet ==
    [Labels : {AllLabels, (0 :> "cat"), (1 :> "dog") @@ (2 :> "bird")},
     TopK : (-1)..MaxTopK,
     MinScore : {Frac(0, 1), Frac(1, 2)},
     Softmax : BOOLEAN]

(***************************************************************************)
(* The calls.                                                              *)
(***************************************************************************)
Init == pc = "idle" /\ in = <<>> /\ out = <<>>

NonMaxSuppressionCall ==
    /\ pc = "idle"
    /\ \E detections \in SeqsUpTo(Detections, MaxDets), iouThreshold \in Thresholds :
         \E o \in NonMaxSuppression(detections, iouThreshold) :
            /\ in' = [detections |-> detections, iouThreshold |-> iouThreshold]
            /\ out' = o
    /\ pc' = "NonMaxSuppression"

ProcessDetectionsCall ==
    /\ pc = "idle"
    /\ \E cs \in SeqsUpTo(Candidates, MaxBoxes), opts \in DetectionOptionsSet,
          more \in Trailing :
         LET logits == Flatten([i \in 1..Len(cs) |-> cs[i].scores])
                          \o [i \in 1..more[1] |-> 0]
             boxes == Flatten([i \in 1..Len(cs) |-> cs[i].box])
                          \o [i \in 1..more[2] |-> 4]
             imageSize == <<16, 16>>
         IN  \E o \in ProcessDetections(logits, boxes, imageSize, opts) :
               /\ in' = [logits |-> logits, boxes |-> boxes, imageSize |-> imageSize,
                         opts |-> opts]
               /\ out' = o
    /\ pc' = "ProcessDetections"

ProcessClassificationCall ==
    /\ pc = "idle"
    /\ \E logits \in SeqsUpTo(Logits, MaxScores), opts \in ClassificationOptionsSet :
         \E o \in ProcessClassification(logits, opts) :
            /\ in' = [logits |-> logits, opts |-> opts]
            /\ out' = o
    /\ pc' = "ProcessClassification"

NextDet == NonMaxSuppressionCall \/ ProcessDetectionsCall \/ ProcessClassificationCall

SpecDet == Init /\ [][NextDet]_vars

(***************************************************************************)
(* pkg/tokenizer: characters.                                              *)
(***************************************************************************)
LowerChars == <<"a", "b", "c", "d", "e", "f", "g", "h", "i", "j", "k", "l", "m", "n", "o", "p", "q", "r", "s", "t", "u", "v", "w", "x", "y", "z">>

UpperChars == <<"A", "B", "C", "D", "E", "F", "G", "H", "I", "J", "K", "L", "M", "N", "O", "P", "Q", "R", "S", "T", "U", "V", "W", "X", "Y", "Z">>

DigitChars == {"0", "1", "2", "3", "4", "5", "6", "7", "8", "9"}

WordChars ==
    {LowerChars[i] : i \in 1..26} \cup {UpperChars[i] : i \in 1..26} \cup DigitChars \cup {"_"}

\* \w of the pattern: [0-9A-Za-z_]
IsWordChar(c) == c \in WordChars

\* \s of the pattern: [\t\n\f\r ]
IsSpaceChar(c) == c \in {" ", "\t", "\n", "\f", "\r"}

LowerOf == [c \in {UpperChars[i] : i \in 1..26} |->
               LowerChars[CHOOSE i \in 1..26 : UpperChars[i] = c]]

UpperOf == [c \in {LowerChars[i] : i \in 1..26} |->
               UpperChars[CHOOSE i \in 1..26 : LowerChars[i] = c]]

\* strings.ToLower and strings.ToUpper on ASCII text
ToLower(str) ==
    [k \in 1..Len(str) |-> IF str[k] \in DOMAIN LowerOf THEN LowerOf[str[k]] ELSE str[k]]

ToUpper(str) ==
    [k \in 1..Len(str) |-> IF str[k] \in DOMAIN UpperOf THEN UpperOf[str[k]] ELSE str[k]]

(***************************************************************************)
(* regexp `\[[^\[\]]+\]|\w+|[^\w\s]+` and FindAllString(text, -1).         *)
(* Positions are 1-based.  The alternatives are tried in order at the      *)
(* leftmost position that matches (leftmost-first), each run is greedy.    *)
(***************************************************************************)
InClass(class, c) ==
    CASE class = "nonbracket" -> c # "[" /\ c # "]"
      [] class = "word" -> IsWordChar(c)
      [] class = "punct" -> ~IsWordChar(c) /\ ~IsSpaceChar(c)

\* the last position of the longest run of class characters that starts at
\* p (p - 1 when the run is empty)
RECURSIVE RunEnd(_, _, _)
RunEnd(text, p, class) ==
    IF p > Len(text) \/ ~InClass(class, text[p]) THEN p - 1
    ELSE RunEnd(text, p + 1, class)

\* the last position of the match that starts at p, 0 when none does
MatchAt(text, p) ==
    LET e1 == RunEnd(text, p + 1, "nonbracket")
    IN  IF text[p] = "[" /\ e1 >= p + 1 /\ e1 + 1 <= Len(text) /\ text[e1 + 1] = "]"
        THEN e1 + 1
        ELSE IF IsWordChar(text[p]) THEN RunEnd(text, p, "word")
        ELSE IF ~IsSpaceChar(text[p]) THEN RunEnd(text, p, "punct")
        ELSE 0

RECURSIVE FindAllFrom(_, _)
FindAllFrom(text, p) ==
    IF p > Len(text) THEN <<>>
    ELSE LET e == MatchAt(text, p)
         IN  IF e = 0 THEN FindAllFrom(text, p + 1)
             ELSE <<SubSeq(text, p, e)>> \o FindAllFrom(text, e + 1)

FindAllString(text) == FindAllFrom(text, 1)

(***************************************************************************)
(* SpecialTokens.                                                          *)
(***************************************************************************)
DefaultSpecialTokens ==
    [PAD |-> <<"[", "P", "A", "D", "]">>,
     UNK |-> <<"[", "U", "N", "K", "]">>,
     CLS |-> <<"[", "C", "L", "S", "]">>,
     SEP |-> <<"[", "S", "E", "P", "]">>,
     MASK |-> <<"[", "M", "A", "S", "K", "]">>]

\* SpecialTokenMap: the maps the literal can build, from the upper-case form
\* of each special token to the token.  When two of the tokens have the same
\* upper-case form, the literal has the same key twice and the order of the
\* two assignments is not specified: either token may stay under the key.
SpecialTokenMap(st) ==
    LET canon == {st.PAD, st.UNK, st.CLS, st.SEP, st.MASK}
        keys == {ToUpper(c) : c \in canon}
    IN  IF \A c, d \in canon : ToUpper(c) = ToUpper(d) => c = d
        THEN {[k \in keys |-> CHOOSE c \in canon : ToUpper(c) = k]}
        ELSE {m \in [keys -> canon] : \A k \in keys : ToUpper(m[k]) = k}

\* the lookup of IsSpecialToken in the map m
LookupSpecial(m, token) ==
    LET upperToken == ToUpper(token)
    IN  IF upperToken \in DOMAIN m
        THEN [canonical |-> m[upperToken], ok |-> TRUE]
        ELSE [canonical |-> <<>>, ok |-> FALSE]

\* The outcomes of IsSpecialToken: one for each map the literal can build.
IsSpecialToken(st, token) ==
    {LookupSpecial(m, token) : m \in SpecialTokenMap(st)}

(***************************************************************************)
(* WordPiece.  vocab is a function from tokens to ids.  start and end are  *)
(* the code's 0-based offsets: word[start:end] is SubSeq(word, start+1,    *)
(* end).                                                                   *)
(***************************************************************************)
ContinuationMarker == <<"#", "#">>

\* the piece looked up for word[start:end]
Piece(word, start, end) ==
    IF start > 0 THEN ContinuationMarker \o SubSeq(word, start + 1, end)
    ELSE SubSeq(word, start + 1, end)

\* fault: the inner loop counting up, which finds the shortest match
RECURSIVE ShortestMatch(_, _, _, _)
ShortestMatch(vocab, word, start, end) ==
    IF end > Len(word) THEN start
    ELSE IF Piece(word, start, end) \in DOMAIN vocab THEN end
    ELSE ShortestMatch(vocab, word, start, end + 1)

FirstMatchWrong(vocab, word, start, end) == ShortestMatch(vocab, word, start, start + 1)

\* the inner loop (for end > start): the first end, counting down from end,
\* whose piece is in the vocabulary; start when there is none
RECURSIVE FirstMatch(_, _, _, _)
FirstMatch(vocab, word, start, end) ==
    IF end <= start THEN start
    ELSE IF Piece(word, start, end) \in DOMAIN vocab THEN end
    ELSE FirstMatch(vocab, word, start, end - 1)

\* fault: UNK appended to the pieces found so far
RECURSIVE WordPieceFromPartial(_, _, _, _, _)
WordPieceFromPartial(vocab, unk, word, start, tokens) ==
    IF start >= Len(word) THEN tokens
    ELSE LET end == FirstMatch(vocab, word, start, Len(word))
         IN  IF end = start THEN Append(tokens, unk)
             ELSE WordPieceFromPartial(vocab, unk, word, end,
                                       Append(tokens, Piece(word, start, end)))

\* the outer loop (for start < wordLen) with the pieces found so far
RECURSIVE WordPieceFrom(_, _, _, _, _)
WordPieceFrom(vocab, unk, word, start, tokens) ==
    IF start >= Len(word) THEN tokens
    ELSE LET end == FirstMatch(vocab, word, start, Len(word))
         IN  IF end = start THEN <<unk>>
             ELSE WordPieceFrom(vocab, unk, word, end,
                                Append(tokens, Piece(word, start, end)))

\* func WordPiece(vocab, specialTokens, word)
WordPiece(vocab, specialTokens, word) ==
    IF word \in DOMAIN vocab THEN <<word>>
    ELSE WordPieceFrom(vocab, specialTokens.UNK, word, 0, <<>>)

\* func (t *Tokenizer) wordPiece(word): the same loops over t.Vocab, with
\* the literal "[UNK]"
Tokenizer_wordPiece(t, word) ==
    IF word \in DOMAIN t.Vocab THEN <<word>>
    ELSE WordPieceFrom(t.Vocab, <<"[", "U", "N", "K", "]">>, word, 0, <<>>)

(***************************************************************************)
(* Encode: the three stages of both tokenizers.                            *)
(***************************************************************************)
MapGet(vocab, token) == IF token \in DOMAIN vocab THEN vocab[token] ELSE 0

HasBrackets(token) == Len(token) >= 1 /\ token[1] = "[" /\ token[Len(token)] = "]"

\* BERTTokenizer.Encode, first loop: the pieces of the coarse tokens, in a
\* build whose SpecialTokenMap is m
RECURSIVE BERTPieces(_, _, _)
BERTPieces(t, m, tokens) ==
    IF Len(tokens) = 0 THEN <<>>
    ELSE LET token == Head(tokens)
             special == LookupSpecial(m, token)
             lower == ToLower(token)
         IN  (IF HasBrackets(token) /\ special.ok THEN <<special.canonical>>
              ELSE IF lower \in DOMAIN t.vocab THEN <<lower>>
              ELSE WordPiece(t.vocab, t.specialTokens, lower))
             \o BERTPieces(t, m, Tail(tokens))

\* Tokenizer.Encode, first loop: a token in brackets is passed on as it is
RECURSIVE TokenizerPieces(_, _)
TokenizerPieces(t, tokens) ==
    IF Len(tokens) = 0 THEN <<>>
    ELSE LET token == Head(tokens)
             lower == ToLower(token)
         IN  (IF HasBrackets(token) THEN <<token>>
              ELSE IF lower \in DOMAIN t.Vocab THEN <<lower>>
              ELSE Tokenizer_wordPiece(t, lower))
             \o TokenizerPieces(t, Tail(tokens))

\* second loop and the CLS / SEP frame: a piece outside the vocabulary
\* becomes UNK.  The attention mask is 1 at every assembled position.
Assemble(vocab, st, wordpieceTokens) ==
    LET finalTokens == <<st.CLS>>
            \o [i \in 1..Len(wordpieceTokens) |->
                  IF wordpieceTokens[i] \in DOMAIN vocab THEN wordpieceTokens[i] ELSE st.UNK]
            \o <<st.SEP>>
    IN  [inputIds |-> [i \in 1..Len(finalTokens) |-> MapGet(vocab, finalTokens[i])],
         finalTokens |-> finalTokens,
         attentionMask |-> [i \in 1..Len(finalTokens) |-> 1]]

\* fault: no truncation and no padding
LengthNormalizeKeepAll(vocab, st, a, maxLength) ==
    [status |-> "ok", InputIds |-> a.inputIds, AttentionMask |-> a.attentionMask,
     Tokens |-> a.finalTokens]

\* fault: the filler gets attention 1
LengthNormalizeMaskOnes(vocab, st, a, maxLength) ==
    LET n == Len(a.inputIds)
    IN  IF n > maxLength
        THEN IF maxLength < 0 THEN [status |-> "panic"]
             ELSE [status |-> "ok",
                   InputIds |-> SubSeq(a.inputIds, 1, maxLength),
                   AttentionMask |-> SubSeq(a.attentionMask, 1, maxLength),
                   Tokens |-> SubSeq(a.finalTokens, 1, maxLength)]
        ELSE [status |-> "ok",
              InputIds |-> a.inputIds \o [i \in 1..(maxLength - n) |-> MapGet(vocab, st.PAD)],
              AttentionMask |-> a.attentionMask \o [i \in 1..(maxLength - n) |-> 1],
              Tokens |-> a.finalTokens \o [i \in 1..(maxLength - n) |-> st.PAD]]

\* fault: truncation that keeps the trailing SEP
LengthNormalizeKeepSep(vocab, st, a, maxLength) ==
    LET n == Len(a.inputIds)
    IN  IF n > maxLength
        THEN IF maxLength < 1 THEN [status |-> "panic"]
             ELSE [status |-> "ok",
                   InputIds |-> Append(SubSeq(a.inputIds, 1, maxLength - 1), a.inputIds[n]),
                   AttentionMask |-> SubSeq(a.attentionMask, 1, maxLength),
                   Tokens |-> Append(SubSeq(a.finalTokens, 1, maxLength - 1), a.finalTokens[n])]
        ELSE [status |-> "ok",
              InputIds |-> a.inputIds \o [i \in 1..(maxLength - n) |-> MapGet(vocab, st.PAD)],
              AttentionMask |-> a.attentionMask \o [i \in 1..(maxLength - n) |-> 0],
              Tokens |-> a.finalTokens \o [i \in 1..(maxLength - n) |-> st.PAD]]

\* truncation to maxLength (slicing with a negative bound panics), or
\* padding up to it
LengthNormalize(vocab, st, a, maxLength) ==
    LET n == Len(a.inputIds)
    IN  IF n > maxLength
        THEN IF maxLength < 0 THEN [status |-> "panic"]
             ELSE [status |-> "ok",
                   InputIds |-> SubSeq(a.inputIds, 1, maxLength),
                   AttentionMask |-> SubSeq(a.attentionMask, 1, maxLength),
                   Tokens |-> SubSeq(a.finalTokens, 1, maxLength)]
        ELSE [status |-> "ok",
              InputIds |-> a.inputIds \o [i \in 1..(maxLength - n) |-> MapGet(vocab, st.PAD)],
              AttentionMask |-> a.attentionMask \o [i \in 1..(maxLength - n) |-> 0],
              Tokens |-> a.finalTokens \o [i \in 1..(maxLength - n) |-> st.PAD]]

\* The outcomes of func (t *BERTTokenizer) Encode(text, maxLength): one for
\* each map SpecialTokenMap can build
BERTTokenizer_Encode(t, text, maxLength) ==
    { LengthNormalize(t.vocab, t.specialTokens,
          Assemble(t.vocab, t.specialTokens, BERTPieces(t, m, FindAllString(text))),
          maxLength) : m \in SpecialTokenMap(t.specialTokens) }

\* func (t *Tokenizer) Encode(text, maxLength): the special tokens are the
\* literals "[CLS]", "[SEP]", "[UNK]", "[PAD]"
Tokenizer_Encode(t, text, maxLength) ==
    LengthNormalize(t.Vocab, DefaultSpecialTokens,
        Assemble(t.Vocab, DefaultSpecialTokens, TokenizerPieces(t, FindAllString(text))),
        maxLength)

(***************************************************************************)
(* The tokenizers of the model.                                            *)
(***************************************************************************)
\* the vertical tab, U+000B
VerticalTab == ""

\* the ASCII white space of strings.TrimSpace (unicode.IsSpace): unlike \s of
\* the pattern it has the vertical tab
IsTrimChar(c) == c \in {" ", "\t", "\n", VerticalTab, "\f", "\r"}

\* strings.TrimSpace
RECURSIVE TrimLeft(_)
TrimLeft(str) ==
    IF Len(str) > 0 /\ IsTrimChar(Head(str)) THEN TrimLeft(Tail(str)) ELSE str

RECURSIVE TrimRight(_)
TrimRight(str) ==
    IF Len(str) > 0 /\ IsTrimChar(str[Len(str)])
    THEN TrimRight(SubSeq(str, 1, Len(str) - 1)) ELSE str

TrimSpace(str) == TrimRight(TrimLeft(str))

\* loadVocabFromEmbed: the non-blank trimmed lines get the ids 0, 1, ... in
\* file order; a later line with the same token overwrites the earlier id
LoadVocab(lines) ==
    LET trimmed == [i \in 1..Len(lines) |-> TrimSpace(lines[i])]
        toks == SelectSeq(trimmed, LAMBDA l : l # <<>>)
    IN  [tok \in {toks[i] : i \in 1..Len(toks)} |->
            (CHOOSE i \in 1..Len(toks) :
                toks[i] = tok /\ \A j \in 1..Len(toks) : toks[j] = tok => j <= i) - 1]

\* the vocabulary file of the model: scenario A's six tokens, the MASK token, and
\* word pieces over the letters a, b, c
VocabLines ==
    << <<"[", "P", "A", "D", "]">>, <<"[", "U", "N", "K", "]">>, <<"[", "C", "L", "S", "]">>, <<"[", "S", "E", "P", "]">>,
       <<"h", "e", "l", "l", "o">>, <<"w", "o", "r", "l", "d">>, <<"[", "M", "A", "S", "K", "]">>,
       <<"a">>, <<"a", "b">>, <<"#", "#", "c">>, <<"#", "#", "b", "c">>,
       <<"#", "#", "c", "c">>, <<"!">> >>

\* loadVocabFromEmbed on the embedded file: the file cannot be opened, the
\* scanner fails while reading it, or its lines are read
LoadVocabFromEmbed(file) ==
    IF file.kind = "unopenable"
    THEN [vocab |-> "nil", err |-> "failed to open embedded vocab file"]
    ELSE IF file.kind = "unscannable"
    THEN [vocab |-> "nil", err |-> "error reading vocab file"]
    ELSE [vocab |-> LoadVocab(file.lines), err |-> "nil"]

\* the maps from ids to tokens that a loop over a Go map can build: when two
\* tokens have the same id, the iteration order decides which one stays
ReverseMaps(vocab) ==
    LET ids == {vocab[tok] : tok \in DOMAIN vocab}
    IN  IF \A s, t \in DOMAIN vocab : vocab[s] = vocab[t] => s = t
        THEN {[id \in ids |-> CHOOSE tok \in DOMAIN vocab : vocab[tok] = id]}
        ELSE {f \in [ids -> DOMAIN vocab] : \A id \in ids : vocab[f[id]] = id}

\* func NewBERTTokenizer(), on the embedded file it finds
NewBERTTokenizerOn(file) ==
    LET loaded == LoadVocabFromEmbed(file)
    IN  IF loaded.err # "nil" THEN {[tok |-> "nil", err |-> loaded.err]}
        ELSE { [tok |-> [vocab |-> loaded.vocab, labels |-> labels,
                         specialTokens |-> DefaultSpecialTokens],
                err |-> "nil"] : labels \in ReverseMaps(loaded.vocab) }

\* func New(path), on the document it finds at path: unreadable, not JSON
\* of the expected shape, or a document with model.vocab
New(doc) ==
    IF doc.kind = "unreadable"
    THEN {[tok |-> "nil", err |-> "failed to read tokenizer config"]}
    ELSE IF doc.kind = "malformed"
    THEN {[tok |-> "nil", err |-> "failed to parse tokenizer config"]}
    ELSE IF \E token \in {<<"[", "C", "L", "S", "]">>, <<"[", "S", "E", "P", "]">>, <<"[", "P", "A", "D", "]">>, <<"[", "U", "N", "K", "]">>} : token \notin DOMAIN doc.vocab
    THEN {[tok |-> "nil", err |-> "required token not found in vocab"]}
    ELSE { [tok |-> [Vocab |-> doc.vocab, IDToToken |-> idToToken], err |-> "nil"] :
           idToToken \in ReverseMaps(doc.vocab) }

\* NewBERTTokenizer on the vocabulary file of the model
NewBERTTokenizer ==
    (CHOOSE r \in NewBERTTokenizerOn([kind |-> "ok", lines |-> VocabLines]) : TRUE).tok

\* tokenizer.New on a document whose model.vocab is the same mapping
NewTokenizer ==
    (CHOOSE r \in New([kind |-> "ok", vocab |-> LoadVocab(VocabLines)]) : TRUE).tok

(***************************************************************************)
(* BERTTokenizer.MaskLogits.  Positions are 0-based, as in the code; a     *)
(* MaskLogits is [Position, Logits].                                       *)
(***************************************************************************)
\* The loop over the tokens from position pos on, with the entries so far.
RECURSIVE MaskLoop(_, _, _, _, _)
MaskLoop(t, tokens, logits, pos, maskLogits) ==
    IF pos >= Len(tokens)
    THEN [status |-> "ok", maskLogits |-> maskLogits,
          isNil |-> Len(maskLogits) = 0, err |-> "nil"]
    ELSE IF tokens[pos + 1] = t.specialTokens.MASK
    THEN LET vocabSize == Cardinality(DOMAIN t.vocab)
             start == pos * vocabSize
             end == start + vocabSize
         IN  IF end > Len(logits)
             THEN [status |-> "error", err |-> "logits array too short for mask"]
             ELSE MaskLoop(t, tokens, logits, pos + 1,
                           Append(maskLogits, [Position |-> pos,
                                               Logits |-> SubSeq(logits, start + 1, end)]))
    ELSE MaskLoop(t, tokens, logits, pos + 1, maskLogits)

\* The outcome of MaskLogits: a run-time panic (integer modulo by zero when
\* tokens is empty), an error, or the entries with a nil error.
MaskLogits(t, tokens, logits) ==
    IF Len(tokens) = 0 THEN [status |-> "panic"]
    ELSE IF Len(logits) % Len(tokens) # 0
    THEN [status |-> "error",
          err |-> "logits length is not a multiple of tokens length"]
    ELSE MaskLoop(t, tokens, logits, 0, <<>>)

(***************************************************************************)
(* Inputs of the tokenizer calls.                                          *)
(***************************************************************************)
\* most segments in a text handed to Encode
MaxSegs == 3
\* largest maxLength handed to Encode
MaxLen == 6
\* longest word handed to WordPiece
MaxWordLen == 4
\* longest token sequence handed to MaskLogits
MaxMaskTokens == 2

\* a text is a concatenation of these segments
Segments ==
    { <<"h", "e", "l", "l", "o">>, <<"w", "o", "r", "l", "d">>, <<" ">>,
      <<"[", "M", "A", "S", "K", "]">>, <<"[", "m", "a", "s", "k", "]">>, <<"[", "P", "A", "D", "]">>,
      <<"A", "b", "c">>, <<"a", "b", "b">>, <<"!">>, <<"[", "x", "]">> }

Texts == {Flatten(segs) : segs \in SeqsUpTo(Segments, MaxSegs)}

Words == SeqsUpTo({"a", "b", "c"}, MaxWordLen)

(***************************************************************************)
(* The tokenizer calls.                                                    *)
(***************************************************************************)
BERTEncodeCall ==
    /\ pc = "idle"
    /\ \E text \in Texts, maxLength \in -1..MaxLen :
         \E o \in BERTTokenizer_Encode(NewBERTTokenizer, text, maxLength) :
            /\ in' = [text |-> text, maxLength |-> maxLength]
            /\ out' = o
    /\ pc' = "BERTTokenizer.Encode"

TokenizerEncodeCall ==
    /\ pc = "idle"
    /\ \E text \in Texts, maxLength \in -1..MaxLen :
         /\ in' = [text |-> text, maxLength |-> maxLength]
         /\ out' = Tokenizer_Encode(NewTokenizer, text, maxLength)
    /\ pc' = "Tokenizer.Encode"

WordPieceCall ==
    /\ pc = "idle"
    /\ \E word \in Words :
         /\ in' = [word |-> word]
         /\ out' = [tokens |-> WordPiece(NewBERTTokenizer.vocab, DefaultSpecialTokens, word)]
    /\ pc' = "WordPiece"

wordPieceCall ==
    /\ pc = "idle"
    /\ \E word \in Words :
         /\ in' = [word |-> word]
         /\ out' = [tokens |-> Tokenizer_wordPiece(NewTokenizer, word)]
    /\ pc' = "Tokenizer.wordPiece"

\* the tokens of the sequences handed to MaskLogits
MaskTokens == {<<"[", "M", "A", "S", "K", "]">>, <<"h", "e", "l", "l", "o">>}

\* the logits buffer of a given length; its i-th float is written i
LogitsBuffer(n) == [i \in 1..n |-> i]

MaskLogitsCall ==
    /\ pc = "idle"
    /\ \E tokens \in SeqsUpTo(MaskTokens, MaxMaskTokens),
          n \in 0..(MaxMaskTokens * Cardinality(DOMAIN NewBERTTokenizer.vocab) + 1) :
         /\ in' = [tokens |-> tokens, logits |-> LogitsBuffer(n)]
         /\ out' = MaskLogits(NewBERTTokenizer, tokens, LogitsBuffer(n))
    /\ pc' = "BERTTokenizer.MaskLogits"

NextTok ==
    \/ BERTEncodeCall \/ TokenizerEncodeCall \/ WordPieceCall \/ wordPieceCall
    \/ MaskLogitsCall

SpecTok == Init /\ [][NextTok]_vars

(***************************************************************************)
(* Calls of pkg/ml.                                                        *)
(***************************************************************************)
ScoreValues == {Frac(1, 10), Frac(1, 2), Frac(9, 10)}

\* the boxes of the detection calls, a box away from all of them and a
\* second box of zero area
IoUBoxes == Boxes \cup {<<20, 20, 30, 30>>, <<7, 7, 7, 7>>}

SoftmaxCall ==
    /\ pc = "idle"
    /\ \E logits \in SeqsUpTo(Logits, MaxScores) :
         /\ in' = [logits |-> logits]
         /\ out' = [probs |-> Softmax(logits)]
    /\ pc' = "Softmax"

TopKCall ==
    /\ pc = "idle"
    /\ \E values \in SeqsUpTo(ScoreValues, MaxScores), k \in (-1)..MaxTopK :
         \E o \in TopK(values, k) :
            /\ in' = [values |-> values, k |-> k]
            /\ out' = o
    /\ pc' = "TopK"

IoUCall ==
    /\ pc = "idle"
    /\ \E a \in IoUBoxes, b \in IoUBoxes :
         /\ in' = [a |-> a, b |-> b]
         /\ out' = [value |-> IoU(a, b)]
    /\ pc' = "IoU"

NextMl == SoftmaxCall \/ TopKCall \/ IoUCall

SpecMl == Init /\ [][NextMl]_vars

(***************************************************************************)
(* Construction of the tokenizers.                                         *)
(***************************************************************************)
\* most lines in a vocabulary file
MaxLines == 5

\* the lines of a vocabulary file: the four mandatory tokens, a token with
\* white space around it, an empty line and a line of white space
VocabFileLines ==
    {<<"[", "P", "A", "D", "]">>, <<"[", "U", "N", "K", "]">>,
     <<"[", "C", "L", "S", "]">>, <<"[", "S", "E", "P", "]">>,
     <<" ", "a", VerticalTab>>, <<>>, <<VerticalTab>>}

VocabFiles ==
    {[kind |-> "unopenable"], [kind |-> "unscannable"]}
    \cup {[kind |-> "ok", lines |-> l] : l \in SeqsUpTo(VocabFileLines, MaxLines)}

\* tokenizer documents: model.vocab gives some of the special tokens the id
\* 0 or 1
TokenizerDocs ==
    {[kind |-> "unreadable"], [kind |-> "malformed"]}
    \cup {[kind |-> "ok", vocab |-> v] :
            v \in UNION {[S -> {0, 1}] :
                           S \in SUBSET {<<"[", "P", "A", "D", "]">>, <<"[", "U", "N", "K", "]">>, <<"[", "C", "L", "S", "]">>, <<"[", "S", "E", "P", "]">>, <<"[", "M", "A", "S", "K", "]">>}}}

NewBERTTokenizerCall ==
    /\ pc = "idle"
    /\ \E file \in VocabFiles :
         \E o \in NewBERTTokenizerOn(file) :
            /\ in' = [file |-> file]
            /\ out' = o
    /\ pc' = "NewBERTTokenizer"

NewCall ==
    /\ pc = "idle"
    /\ \E doc \in TokenizerDocs :
         \E o \in New(doc) :
            /\ in' = [doc |-> doc]
            /\ out' = o
    /\ pc' = "New"

NextNew == NewBERTTokenizerCall \/ NewCall

SpecNew == Init /\ [][NextNew]_vars

(***************************************************************************)
(* The library as a whole: any one call.                                   *)
(***************************************************************************)
Next == NextDet \/ NextMl \/ NextTok \/ NextNew

Spec == Init /\ [][Next]_vars

(***************************************************************************)
(* Properties of the detection calls.                                      *)
(***************************************************************************)
\* the list a detection call returned, and the IoU threshold it ran with
Returned ==
    IF pc = "NonMaxSuppression" THEN out.result
    ELSE IF pc = "ProcessDetections" /\ out.status = "ok" THEN out.result
    ELSE <<>>

ThresholdUsed ==
    IF pc = "NonMaxSuppression" THEN in.iouThreshold
    ELSE IF pc = "ProcessDetections" THEN in.opts.IoUThreshold
    ELSE Frac(0, 1)

Overlap(d, e) == FloatGT(IoU(d.Box, e.Box), ThresholdUsed)

\* C1: the list returned by NonMaxSuppression, and by ProcessDetections,
\* holds no two detections of the same Class whose IoU is above the
\* threshold; of two same-class candidates with IoU above the threshold
\* only the one with the higher confidence is returned.
C1_NoSameClassOverlap ==
    /\ \A i, j \in 1..Len(Returned) :
          i # j /\ Returned[i].Class = Returned[j].Class
             => ~Overlap(Returned[i], Returned[j])
    /\ pc = "NonMaxSuppression" /\ Len(in.detections) = 2
          => \A i, j \in 1..2 :
                /\ in.detections[i].Class = in.detections[j].Class
                /\ Overlap(in.detections[i], in.detections[j])
                /\ FloatGT(in.detections[i].Confidence, in.detections[j].Confidence)
                => out.result = <<in.detections[i]>>

\* two same-class candidates above the threshold, the second one the more
\* confident: it alone is returned
C1_Witness ==
    /\ pc = "NonMaxSuppression" /\ Len(in.detections) = 2
    /\ in.detections[1].Class = in.detections[2].Class
    /\ Overlap(in.detections[1], in.detections[2])
    /\ FloatGT(in.detections[2].Confidence, in.detections[1].Confidence)
    /\ out.result = <<in.detections[2]>>

\* C2: NonMaxSuppression never drops a detection because of a detection of
\* another Class: a candidate whose Class differs from the Class of every
\* other candidate is in the result, whatever the overlap.
C2_OtherClassNeverSuppresses ==
    pc = "NonMaxSuppression" =>
        \A i \in 1..Len(in.detections) :
            (\A j \in 1..Len(in.detections) :
                j # i => in.detections[j].Class # in.detections[i].Class)
            => \E k \in 1..Len(out.result) : out.result[k] = in.detections[i]

\* two candidates of different classes with the identical box (IoU 1, above
\* the threshold): both are returned
C2_Witness ==
    /\ pc = "NonMaxSuppression" /\ Len(in.detections) = 2
    /\ in.detections[1].Class # in.detections[2].Class
    /\ in.detections[1].Box = in.detections[2].Box
    /\ Overlap(in.detections[1], in.detections[2])
    /\ Len(out.result) = 2

\* C3: the returned detections are in non-increasing Confidence order.
C3_DescendingConfidence ==
    \A i, j \in 1..Len(Returned) :
        i < j => ~FloatGT(Returned[j].Confidence, Returned[i].Confidence)

\* an input in ascending order, returned in descending order
C3_Witness ==
    /\ pc = "NonMaxSuppression" /\ Len(in.detections) = 3 /\ Len(out.result) = 3
    /\ FloatGT(in.detections[3].Confidence, in.detections[1].Confidence)
    /\ FloatGT(out.result[1].Confidence, out.result[3].Confidence)

\* C4: ProcessDetections returns at most MaxDetections detections.
C4_AtMostMaxDetections ==
    pc = "ProcessDetections" /\ out.status = "ok"
        => Len(out.result) <= in.opts.MaxDetections

(***************************************************************************)
(* Properties of the tokenizer calls.                                      *)
(***************************************************************************)
Encoded == pc \in {"BERTTokenizer.Encode", "Tokenizer.Encode"} /\ out.status = "ok"

ModelVocab == NewBERTTokenizer.vocab

\* the coarse tokens of the text, and the sequence CLS + pieces + SEP that
\* the call assembled before normalising its length
CoarseTokens == FindAllString(in.text)

Assembled ==
    IF pc = "BERTTokenizer.Encode"
    THEN Assemble(ModelVocab, DefaultSpecialTokens,
                  BERTPieces(NewBERTTokenizer,
                             CHOOSE m \in SpecialTokenMap(DefaultSpecialTokens) : TRUE,
                             CoarseTokens))
    ELSE Assemble(ModelVocab, DefaultSpecialTokens, TokenizerPieces(NewTokenizer, CoarseTokens))

\* C5: InputIds, AttentionMask and Tokens all have length maxLength, when
\* the content is padded and when it is truncated.
C5_LengthIsMaxLength ==
    Encoded => /\ Len(out.InputIds) = in.maxLength
               /\ Len(out.AttentionMask) = in.maxLength
               /\ Len(out.Tokens) = in.maxLength

\* a truncated output: more coarse tokens than maxLength, the SEP cut off
C5_Witness ==
    /\ Encoded /\ in.maxLength >= 2
    /\ Len(CoarseTokens) > in.maxLength
    /\ Len(out.Tokens) = in.maxLength
    /\ out.Tokens[in.maxLength] # DefaultSpecialTokens.SEP

\* C6: with S = CLS + content pieces + SEP, the output is S followed by PAD
\* up to maxLength when len(S) <= maxLength, and the first maxLength
\* elements of S otherwise; a text of known single-piece words yields CLS,
\* the words' ids in order, SEP, then PAD ("hello world" at 6 yields
\* [2,4,5,3,0,0]).
C6_NormalisedSequence ==
    Encoded =>
        LET S == Assembled
            n == Len(S.finalTokens)
            m == in.maxLength
        IN  /\ S.finalTokens[1] = DefaultSpecialTokens.CLS
            /\ S.finalTokens[n] = DefaultSpecialTokens.SEP
            /\ (\A k \in 1..Len(CoarseTokens) : CoarseTokens[k] \in DOMAIN ModelVocab)
                  => /\ S.finalTokens = <<DefaultSpecialTokens.CLS>> \o CoarseTokens
                                           \o <<DefaultSpecialTokens.SEP>>
                     /\ \A k \in 1..n : S.inputIds[k] = ModelVocab[S.finalTokens[k]]
            /\ n <= m =>
                  /\ SubSeq(out.Tokens, 1, n) = S.finalTokens
                  /\ SubSeq(out.InputIds, 1, n) = S.inputIds
                  /\ \A k \in (n + 1)..m :
                        /\ out.Tokens[k] = DefaultSpecialTokens.PAD
                        /\ out.InputIds[k] = ModelVocab[DefaultSpecialTokens.PAD]
            /\ n > m =>
                  /\ out.Tokens = SubSeq(S.finalTokens, 1, m)
                  /\ out.InputIds = SubSeq(S.inputIds, 1, m)
            /\ in.text = <<"h", "e", "l", "l", "o", " ", "w", "o", "r", "l", "d">> /\ m = 6
                  => out.InputIds = <<2, 4, 5, 3, 0, 0>>

\* scenario A
C6_Witness ==
    /\ Encoded
    /\ in.text = <<"h", "e", "l", "l", "o", " ", "w", "o", "r", "l", "d">>
    /\ in.maxLength = 6
    /\ out.InputIds = <<2, 4, 5, 3, 0, 0>>
    /\ out.AttentionMask = <<1, 1, 1, 1, 0, 0>>

\* C7 as claimed: AttentionMask[i] is 0 if Tokens[i] is the PAD token and 1
\* otherwise, also when the text itself contains a PAD token.
C7_MaskZeroIffPadToken ==
    Encoded =>
        \A i \in 1..Len(out.Tokens) :
            out.AttentionMask[i] = IF out.Tokens[i] = DefaultSpecialTokens.PAD THEN 0 ELSE 1

\* C7 as amended: AttentionMask[i] is 1 at every position of the assembled
\* sequence CLS + content + SEP (a PAD token of the text included) and 0 at
\* every filler position after it; a position with mask 0 holds PAD.
C7_MaskZeroIffFiller ==
    Encoded =>
        \A i \in 1..Len(out.Tokens) :
            /\ out.AttentionMask[i] = IF i <= Len(Assembled.finalTokens) THEN 1 ELSE 0
            /\ out.AttentionMask[i] = 0 => out.Tokens[i] = DefaultSpecialTokens.PAD

\* a PAD token of the text with mask 1, followed by filler with mask 0
C7_Witness ==
    /\ Encoded
    /\ \E i, j \in 1..Len(out.Tokens) :
          /\ i < j
          /\ out.Tokens[i] = DefaultSpecialTokens.PAD /\ out.AttentionMask[i] = 1
          /\ out.Tokens[j] = DefaultSpecialTokens.PAD /\ out.AttentionMask[j] = 0

\* the word a WordPiece call was given and the pieces it returned
SplitWord == pc \in {"WordPiece", "Tokenizer.wordPiece"}

\* the ends e for which word[p:e], with ## in front when p > 0, is a
\* vocabulary entry, and the largest of them
MatchEnds(word, p) == {e \in (p + 1)..Len(word) : Piece(word, p, e) \in DOMAIN ModelVocab}

LongestEnd(word, p) == CHOOSE e \in MatchEnds(word, p) : \A f \in MatchEnds(word, p) : f <= e

\* the positions a greedy longest-match scan of word visits from p on
RECURSIVE ScanPositions(_, _)
ScanPositions(word, p) ==
    IF p >= Len(word) \/ MatchEnds(word, p) = {} THEN {p}
    ELSE {p} \cup ScanPositions(word, LongestEnd(word, p))

\* a piece without its continuation marker: the marker is on every piece
\* but the first
Unmarked(tokens, k) == IF k > 1 THEN SubSeq(tokens[k], 3, Len(tokens[k])) ELSE tokens[k]

\* the 0-based offset in the word at which piece k starts
RECURSIVE PieceStart(_, _)
PieceStart(tokens, k) ==
    IF k <= 1 THEN 0 ELSE PieceStart(tokens, k - 1) + Len(Unmarked(tokens, k - 1))

\* C8: for a word that is not in the vocabulary, if at a position the scan
\* reaches no substring starting there is in the vocabulary, the result is
\* exactly the single piece UNK; the result never holds matched pieces next
\* to UNK, and never a split of part of the word.
C8_AllOrNothing ==
    SplitWord /\ in.word \notin DOMAIN ModelVocab =>
        /\ (\E p \in ScanPositions(in.word, 0) :
               p < Len(in.word) /\ MatchEnds(in.word, p) = {})
              => out.tokens = <<DefaultSpecialTokens.UNK>>
        /\ \/ out.tokens = <<DefaultSpecialTokens.UNK>>
           \/ /\ \A k \in 1..Len(out.tokens) : out.tokens[k] # DefaultSpecialTokens.UNK
              /\ Flatten([k \in 1..Len(out.tokens) |-> Unmarked(out.tokens, k)]) = in.word

\* a word whose first piece is found and whose rest is not: a single UNK
C8_Witness ==
    /\ SplitWord /\ in.word \notin DOMAIN ModelVocab
    /\ MatchEnds(in.word, 0) # {}
    /\ out.tokens = <<DefaultSpecialTokens.UNK>>

\* C9: when the result is not UNK, every piece is a vocabulary entry, the
\* first piece is the longest prefix of the word in the vocabulary, each
\* later piece is ## plus the longest substring at its position whose
\* marked form is in the vocabulary, and the pieces without their markers
\* concatenate to the word.
C9_GreedyLongestMatch ==
    SplitWord /\ out.tokens # <<DefaultSpecialTokens.UNK>> =>
        /\ \A k \in 1..Len(out.tokens) :
              LET start == PieceStart(out.tokens, k)
              IN  /\ out.tokens[k] \in DOMAIN ModelVocab
                  /\ MatchEnds(in.word, start) # {}
                  /\ out.tokens[k] = Piece(in.word, start, LongestEnd(in.word, start))
        /\ Flatten([k \in 1..Len(out.tokens) |-> Unmarked(out.tokens, k)]) = in.word

\* a word with two ways to split it, of which the scan takes the one with
\* the longest first piece
C9_Witness ==
    /\ SplitWord /\ Len(out.tokens) = 2
    /\ Cardinality(MatchEnds(in.word, 0)) = 2
    /\ Cardinality(MatchEnds(in.word, PieceStart(out.tokens, 2))) = 2
    /\ Len(out.tokens[1]) = 2 /\ Len(out.tokens[2]) = 4

\* the special token that a coarse token in brackets spells in some letter case
SpelledSpecial(token) ==
    {c \in {DefaultSpecialTokens.PAD, DefaultSpecialTokens.UNK, DefaultSpecialTokens.CLS,
            DefaultSpecialTokens.SEP, DefaultSpecialTokens.MASK} : ToUpper(c) = ToUpper(token)}

\* C10: in every tokenizer's Encode, a coarse token in brackets that spells
\* a special token in any letter case is emitted as the canonical special
\* token with that token's vocabulary id (here: for the first coarse token
\* of the text, which is output position 2).
C10_SpecialTokenAnyCase ==
    Encoded /\ in.maxLength >= 2 /\ Len(CoarseTokens) >= 1 =>
        \A c \in SpelledSpecial(CoarseTokens[1]) :
            /\ out.Tokens[2] = c
            /\ out.InputIds[2] = ModelVocab[c]

(***************************************************************************)
(* Properties of the construction of the tokenizers.                       *)
(***************************************************************************)
MandatoryTokens ==
    {DefaultSpecialTokens.PAD, DefaultSpecialTokens.UNK,
     DefaultSpecialTokens.CLS, DefaultSpecialTokens.SEP}

\* the tokens of the source vocabulary a constructor was given
SourceTokens ==
    IF pc = "NewBERTTokenizer" /\ in.file.kind = "ok"
    THEN {TrimSpace(in.file.lines[i]) : i \in 1..Len(in.file.lines)} \ {<<>>}
    ELSE IF pc = "New" /\ in.doc.kind = "ok" THEN DOMAIN in.doc.vocab
    ELSE {}

\* C11: every constructor fails with an error, and returns no tokenizer,
\* when the source vocabulary lacks one of [PAD], [UNK], [CLS], [SEP].
C11_FailsWithoutMandatoryToken ==
    pc \in {"NewBERTTokenizer", "New"} /\ ~(MandatoryTokens \subseteq SourceTokens)
        => out.err # "nil" /\ out.tok = "nil"

\* C12: the vocabulary built from a newline-delimited list is a bijection
\* between its N tokens and the ids 0..N-1, in file order with blank lines
\* skipped, also when a token is repeated.
C12_VocabularyBijection ==
    pc = "NewBERTTokenizer" /\ out.err = "nil" =>
        LET vocab == out.tok.vocab
            N == Cardinality(DOMAIN vocab)
        IN  /\ {vocab[tok] : tok \in DOMAIN vocab} = 0..(N - 1)
            /\ \A s, t \in DOMAIN vocab : vocab[s] = vocab[t] => s = t
            /\ DOMAIN out.tok.labels = 0..(N - 1)
            /\ \A id \in DOMAIN out.tok.labels : vocab[out.tok.labels[id]] = id
            /\ \A s, t \in DOMAIN vocab :
                  vocab[s] < vocab[t] <=>
                     \E i \in 1..Len(in.file.lines) :
                        /\ TrimSpace(in.file.lines[i]) = s
                        /\ \A j \in 1..Len(in.file.lines) :
                              TrimSpace(in.file.lines[j]) = t => i < j

(***************************************************************************)
(* Properties of ProcessClassification and of the pkg/ml functions.        *)
(***************************************************************************)
\* x == y of two float32 values: NaN is equal to nothing
FloatEQ(x, y) ==
    IF x.den = 0 \/ y.den = 0
    THEN x.den = 0 /\ y.den = 0 /\ x.num > 0 /\ y.num > 0
    ELSE x.num * y.den = y.num * x.den

\* C13: every Classification of ProcessClassification and every Detection
\* of ProcessDetections has a Class that is a key of the caller's Labels
\* and the Label registered for it; an index without a label is never
\* emitted.
C13_ClassHasLabel ==
    /\ pc = "ProcessClassification" /\ out.status = "ok" =>
          \A i \in 1..Len(out.classifications) :
             /\ out.classifications[i].Class \in DOMAIN in.opts.Labels
             /\ out.classifications[i].Label =
                   in.opts.Labels[out.classifications[i].Class]
    /\ pc = "ProcessDetections" /\ out.status = "ok" =>
          \A i \in 1..Len(out.result) :
             /\ out.result[i].Class \in DOMAIN in.opts.Labels
             /\ out.result[i].Label = in.opts.Labels[out.result[i].Class]

\* three scores, labels for the indices 0 and 1 only, all three selected:
\* index 2 is dropped
C13_Witness ==
    /\ pc = "ProcessClassification" /\ out.status = "ok"
    /\ Len(in.logits) = 3 /\ in.opts.TopK = 3 /\ in.opts.Labels = AllLabels
    /\ in.opts.MinScore = Frac(0, 1)
    /\ Len(out.classifications) = 2

\* the scores ProcessClassification ranks
Scores ==
    IF in.opts.Softmax THEN Softmax(in.logits)
    ELSE [i \in 1..Len(in.logits) |-> LogitValue(in.logits[i])]

\* the indices that have a score >= MinScore and a registered label
Qualifying ==
    {c \in 0..(Len(in.logits) - 1) :
        /\ ~FloatLT(Scores[c + 1], in.opts.MinScore)
        /\ c \in DOMAIN in.opts.Labels}

\* C14 as stated, for TopK >= 0: the result holds exactly the TopK
\* highest-scoring of the indices that have a score >= MinScore and a
\* registered label (all of them when they are fewer), in non-increasing
\* Confidence order; the list is never nil and the error is nil.
C14_TopKOfQualifying ==
    pc = "ProcessClassification" /\ in.opts.TopK >= 0 =>
        /\ out.status = "ok"
        /\ LET K == Min(in.opts.TopK, Cardinality(Qualifying))
               res == out.classifications
           IN  /\ Len(res) = K
               /\ \A i, j \in 1..Len(res) : i # j => res[i].Class # res[j].Class
               /\ \A i \in 1..Len(res) :
                     /\ res[i].Class \in Qualifying
                     /\ res[i].Confidence = Scores[res[i].Class + 1]
                     /\ \A c \in Qualifying \ {res[j].Class : j \in 1..Len(res)} :
                           ~FloatGT(Scores[c + 1], res[i].Confidence)
               /\ \A i, j \in 1..Len(res) :
                     i < j => ~FloatGT(res[j].Confidence, res[i].Confidence)
               /\ ~out.isNil
               /\ out.err = "nil"

\* C14, amended: for TopK >= 0 ProcessClassification takes the min(TopK,
\* len) highest-scoring indices and returns exactly those of them that have
\* a score >= MinScore and a registered label, each with its score as
\* Confidence, in non-increasing Confidence order and so at most TopK of
\* them; an index outside that selection is never returned, also when a
\* selected one is dropped; the list is never nil and the error is nil,
\* also when nothing survives.  For a negative TopK the call does not
\* return: TopK panics.
C14_TopKFiltered ==
    pc = "ProcessClassification" =>
        IF in.opts.TopK < 0 THEN out.status = "panic"
        ELSE
        /\ out.status = "ok"
        /\ LET n == Len(in.logits)
               K == Min(in.opts.TopK, n)
               res == out.classifications
           IN  /\ \E T \in SUBSET (0..(n - 1)) :
                     /\ Cardinality(T) = K
                     /\ \A i \in T, j \in (0..(n - 1)) \ T :
                           ~FloatGT(Scores[j + 1], Scores[i + 1])
                     /\ {res[i].Class : i \in 1..Len(res)} = T \cap Qualifying
               /\ \A i, j \in 1..Len(res) : i # j => res[i].Class # res[j].Class
               /\ \A i \in 1..Len(res) :
                     /\ res[i].Confidence = Scores[res[i].Class + 1]
                     /\ res[i].Label = in.opts.Labels[res[i].Class]
               /\ \A i, j \in 1..Len(res) :
                     i < j => ~FloatGT(res[j].Confidence, res[i].Confidence)
               /\ Len(res) <= in.opts.TopK
               /\ ~out.isNil
               /\ out.err = "nil"

\* the highest score has no label and TopK is 1: the labelled indices 1 and
\* 2 pass the filters but were not selected, and the list is empty, not nil
C14_Witness ==
    /\ pc = "ProcessClassification" /\ out.status = "ok"
    /\ in.opts.TopK = 1 /\ Len(in.logits) = 3
    /\ in.logits[1] > in.logits[2] /\ in.logits[1] > in.logits[3]
    /\ in.opts.Labels = (1 :> "dog") @@ (2 :> "bird")
    /\ in.opts.MinScore = Frac(0, 1)
    /\ Len(out.classifications) = 0 /\ ~out.isNil /\ out.err = "nil"

\* raw scores, three of them, the two highest selected and both kept, in
\* strictly descending order
C14_WitnessKept ==
    /\ pc = "ProcessClassification" /\ out.status = "ok"
    /\ ~in.opts.Softmax /\ in.opts.TopK = 2 /\ Len(in.logits) = 3
    /\ in.opts.MinScore = Frac(1, 2)
    /\ Len(out.classifications) = 2
    /\ FloatGT(out.classifications[1].Confidence, out.classifications[2].Confidence)

\* what TopK promises of a returned list of indices
TopKContract ==
    LET n == Len(in.values)
        idx == out.indices
    IN  /\ Len(idx) = Min(in.k, n)
        /\ \A i \in 1..Len(idx) : idx[i] \in 0..(n - 1)
        /\ \A i, j \in 1..Len(idx) : i # j => idx[i] # idx[j]
        /\ \A i, j \in 1..Len(idx) :
              i < j => ~FloatGT(in.values[idx[j] + 1], in.values[idx[i] + 1])
        /\ \A i \in 1..Len(idx), j \in 0..(n - 1) :
              (\A m \in 1..Len(idx) : idx[m] # j)
                 => ~FloatGT(in.values[j + 1], in.values[idx[i] + 1])

\* C15 as stated: for every values slice and every integer k, TopK returns
\* min(k, len(values)) valid, distinct indices in non-increasing value
\* order, and no omitted index has a value greater than a returned one.
C15_TopKEveryK ==
    pc = "TopK" => out.status = "ok" /\ TopKContract

\* C15, amended: the same for every k >= 0; for a negative k TopK does not
\* return, make([]int, k) panics.
C15_TopKNonNegativeK ==
    pc = "TopK" =>
        IF in.k >= 0 THEN out.status = "ok" /\ TopKContract
        ELSE out.status = "panic"

\* two of three values returned, the first of them not first in the slice
C15_Witness ==
    /\ pc = "TopK" /\ out.status = "ok"
    /\ Len(in.values) = 3 /\ in.k = 2 /\ Len(out.indices) = 2
    /\ out.indices[1] # 0
    /\ FloatGT(in.values[out.indices[1] + 1], in.values[out.indices[2] + 1])

\* the two boxes share no area
Disjoint(a, b) ==
    Max(0, Min(a[3], b[3]) - Max(a[1], b[1])) * Max(0, Min(a[4], b[4]) - Max(a[2], b[2])) = 0

\* C16: IoU(a, b) == IoU(b, a), IoU(a, a) == 1, and IoU(a, b) == 0 when a
\* and b do not overlap.
C16_IoUAlgebra ==
    pc = "IoU" =>
        /\ FloatEQ(out.value, IoU(in.b, in.a))
        /\ in.a = in.b => FloatEQ(out.value, Frac(1, 1))
        /\ Disjoint(in.a, in.b) /\ in.a # in.b => FloatEQ(out.value, Frac(0, 1))

\* C17: IoU never divides by a zero union: it returns a defined number,
\* also for two boxes of zero area.
C17_IoUDefined ==
    pc = "IoU" => out.value.den # 0

\* the shapes of the buffers do not agree
ShapeMismatch ==
    \/ Len(in.boxes) < 4
    \/ Len(in.boxes) % 4 # 0
    \/ Len(in.logits) % (Len(in.boxes) \div 4) # 0

\* C18: ProcessDetections returns an error, and neither panics nor returns
\* a list, when the box buffer holds fewer than 4 floats, its length is not
\* a multiple of 4, or the logits length is not a multiple of the number of
\* boxes.
C18_ShapeMismatchIsError ==
    pc = "ProcessDetections" /\ ShapeMismatch => out.status = "error"

RECURSIVE SumFrac(_)
SumFrac(s) ==
    IF Len(s) = 0 THEN Frac(0, 1)
    ELSE LET rest == SumFrac(Tail(s))
         IN  Frac(Head(s).num * rest.den + rest.num * Head(s).den, Head(s).den * rest.den)

\* the constants added to every score, in units of ln 2
Shifts == {-1, 1, 2}

\* C20: for a non-empty score vector Softmax returns as many entries as it
\* was given, they sum to 1, and the result is the same when a constant is
\* added to every score.
C20_SoftmaxNormalised ==
    pc = "Softmax" /\ Len(in.logits) > 0 =>
        /\ Len(out.probs) = Len(in.logits)
        /\ \A i \in 1..Len(out.probs) :
              out.probs[i].den > 0 /\ out.probs[i].num > 0
        /\ FloatEQ(SumFrac(out.probs), Frac(1, 1))
        /\ \A c \in Shifts :
              LET shifted == Softmax([i \in 1..Len(in.logits) |-> in.logits[i] + c])
              IN  /\ Len(shifted) = Len(out.probs)
                  /\ \A i \in 1..Len(shifted) : FloatEQ(shifted[i], out.probs[i])

\* three scores, not all the same
C20_Witness ==
    /\ pc = "Softmax" /\ Len(in.logits) = 3
    /\ in.logits[1] # in.logits[2]
    /\ ~FloatEQ(out.probs[1], out.probs[2])

(***************************************************************************)
(* Properties of MaskLogits.                                               *)
(***************************************************************************)
\* the 0-based positions of the MASK tokens, in ascending order
RECURSIVE MaskPositions(_, _)
MaskPositions(tokens, pos) ==
    IF pos >= Len(tokens) THEN <<>>
    ELSE IF tokens[pos + 1] = DefaultSpecialTokens.MASK
    THEN <<pos>> \o MaskPositions(tokens, pos + 1)
    ELSE MaskPositions(tokens, pos + 1)

\* C19: MaskLogits returns an error whenever len(logits) is not
\* len(tokens) x vocabulary size, an empty token sequence included; when it
\* succeeds it returns one entry per MASK token, in ascending position
\* order, each with the vocabulary-size block of its position.
C19_MaskLogitsShape ==
    pc = "BERTTokenizer.MaskLogits" =>
        LET vocabSize == Cardinality(DOMAIN NewBERTTokenizer.vocab)
            positions == MaskPositions(in.tokens, 0)
        IN  /\ Len(in.logits) # Len(in.tokens) * vocabSize => out.status = "error"
            /\ Len(in.tokens) = 0 => out.status = "error"
            /\ out.status = "ok" =>
                  /\ Len(out.maskLogits) = Len(positions)
                  /\ \A i \in 1..Len(positions) :
                        /\ out.maskLogits[i].Position = positions[i]
                        /\ out.maskLogits[i].Logits =
                              SubSeq(in.logits, positions[i] * vocabSize + 1,
                                     (positions[i] + 1) * vocabSize)

(***************************************************************************)
(* Properties of the decoding of the candidates and of the suppression.    *)
(***************************************************************************)
\* what the loop of ProcessDetections makes of candidate i (0-based), read
\* from the buffers alone: its probabilities, the largest of them and the
\* lowest index that has it
CandidateOf(i) ==
    LET numBoxes == Len(in.boxes) \div 4
        numClasses == Len(in.logits) \div numBoxes
        probs == Softmax(SubSeq(in.logits, i * numClasses + 1, (i + 1) * numClasses))
        best == CHOOSE c \in 1..numClasses :
                   /\ \A d \in 1..numClasses : ~FloatGT(probs[d], probs[c])
                   /\ \A d \in 1..(c - 1) : FloatGT(probs[c], probs[d])
    IN  [maxProb |-> probs[best],
         maxClass |-> best - 1,
         passes |-> /\ ~FloatLT(probs[best], in.opts.ConfThreshold)
                    /\ (best - 1) \in DOMAIN in.opts.Labels]

\* the candidates that pass, in the order of the buffers
RECURSIVE PassingFrom(_)
PassingFrom(i) ==
    IF i >= Len(in.boxes) \div 4 THEN <<>>
    ELSE IF CandidateOf(i).passes THEN <<i>> \o PassingFrom(i + 1)
    ELSE PassingFrom(i + 1)

\* C21: a candidate box is handed to NonMaxSuppression if and only if the
\* largest softmax probability of its score block is >= ConfThreshold and
\* the class that has it is labelled; the Class of its detection is the
\* lowest index of that largest probability and its Confidence is that
\* probability; each candidate is decoded from its own block alone, and
\* the detections keep the order of the candidates.  Stated for buffers
\* with at least one score for every box.
C21_PerCandidateDecode ==
    pc = "ProcessDetections" /\ out.status = "ok" /\ Len(in.logits) >= Len(in.boxes) \div 4 =>
        LET passing == PassingFrom(0)
        IN  /\ Len(out.decoded) = Len(passing)
            /\ \A n \in 1..Len(passing) :
                  /\ out.decoded[n].Class = CandidateOf(passing[n]).maxClass
                  /\ out.decoded[n].Confidence = CandidateOf(passing[n]).maxProb
                  /\ out.decoded[n].Label = in.opts.Labels[out.decoded[n].Class]

\* two candidates: the first has a tie between its classes and is decoded
\* as class 0, the second has an unlabelled class ahead and is dropped
C21_Witness ==
    /\ pc = "ProcessDetections" /\ out.status = "ok"
    /\ Len(in.boxes) = 8 /\ Len(in.logits) = 4
    /\ in.logits[1] = in.logits[2] /\ in.logits[4] > in.logits[3]
    /\ in.opts.Labels = (0 :> "cat")
    /\ Len(out.decoded) = 1 /\ out.decoded[1].Class = 0

\* C22: after the call the caller's slice holds the same detections in the
\* same order as before it.
C22_ArgumentUnchanged ==
    pc = "NonMaxSuppression" => out.detections = in.detections

\* the sets of positions of the sorted slice whose detections, in order,
\* make up the returned list
KeptPositions ==
    {S \in SUBSET (1..Len(out.detections)) :
        /\ Cardinality(S) = Len(out.result)
        /\ \A n \in 1..Len(out.result) :
              \E i \in S :
                 /\ Cardinality({j \in S : j < i}) = n - 1
                 /\ out.detections[i] = out.result[n]}

\* C23: the returned list is taken from the input without repetition; a
\* detection whose confidence is strictly the highest is returned; and
\* every detection that is not returned has, before it in the order of
\* confidence, a returned detection of its class whose IoU with it is above
\* the threshold.
C23_OnlyDominatedDropped ==
    pc = "NonMaxSuppression" =>
        /\ Len(out.detections) = Len(in.detections)
        /\ \A d \in {in.detections[i] : i \in 1..Len(in.detections)}
                  \cup {out.detections[i] : i \in 1..Len(out.detections)} :
              Cardinality({i \in 1..Len(out.detections) : out.detections[i] = d})
                 = Cardinality({i \in 1..Len(in.detections) : in.detections[i] = d})
        /\ \A i, j \in 1..Len(out.detections) :
              i < j => ~FloatGT(out.detections[j].Confidence, out.detections[i].Confidence)
        /\ \E S \in KeptPositions :
              \A j \in (1..Len(out.detections)) \ S :
                 \E i \in S :
                    /\ i < j
                    /\ out.detections[i].Class = out.detections[j].Class
                    /\ FloatGT(IoU(out.detections[i].Box, out.detections[j].Box),
                               in.iouThreshold)
        /\ \A d \in 1..Len(in.detections) :
              (\A e \in 1..Len(in.detections) :
                  e # d => FloatGT(in.detections[d].Confidence, in.detections[e].Confidence))
                 => \E n \in 1..Len(out.result) : out.result[n] = in.detections[d]

\* three detections of one class: the first suppresses the second, and the
\* third, which overlaps only the suppressed one above the threshold, is
\* returned
C23_Witness ==
    /\ pc = "NonMaxSuppression" /\ Len(in.detections) = 3 /\ Len(out.result) = 2
    /\ in.iouThreshold = Frac(45, 100)
    /\ \A i \in 1..3 : out.detections[i].Class = 0
    /\ out.detections[1].Box = <<0, 0, 10, 10>>
    /\ out.detections[2].Box = <<1, 1, 11, 11>>
    /\ out.detections[3].Box = <<3, 3, 13, 13>>
    /\ out.result = <<out.detections[1], out.detections[3]>>

====
